---- MODULE Spec2Model ----
(***************************************************************************)
(* Model of hw_info.py: the hardware probes of class HardwareInfo, and     *)
(* main(): argument parsing, component selection, timestamp, rendering     *)
(* (text, json, yaml, csv) and delivery of the rendered string.            *)
(*                                                                         *)
(* A Python value is a node [tag, str, num, kids]:                         *)
(*   tag "str"/"int"/"bool"/"none" are scalars, "map" is a dict whose kids  *)
(*   are its (k, v) entries in insertion order, "list" is a list whose     *)
(*   kids carry its items (k is "").  A rendered string is the sequence of *)
(*   the pieces it is concatenated from.                                   *)
(***************************************************************************)
EXTENDS Integers, Sequences, FiniteSets, TLC

VARIABLES argv, pc, args, data, output, stdout, stderr, file, exitCode

vars == <<argv, pc, args, data, output, stdout, stderr, file, exitCode>>

\* ---------------------------------------------------------------- bounds

\* Largest number of memory banks, disks and video controllers of a host.
MaxUnits == 1

\* ------------------------------------------------------------ Python values

KV(k, v) == [k |-> k, v |-> v]

Str(s) == [tag |-> "str", str |-> s, num |-> 0, kids |-> <<>>]

Num(n) == [tag |-> "int", str |-> "", num |-> n, kids |-> <<>>]

Bool(b) == [tag |-> "bool", str |-> "", num |-> IF b THEN 1 ELSE 0, kids |-> <<>>]

None == [tag |-> "none", str |-> "", num |-> 0, kids |-> <<>>]

Map(entries) == [tag |-> "map", str |-> "", num |-> 0, kids |-> entries]

List(items) ==
    [tag |-> "list", str |-> "", num |-> 0,
     kids |-> [i \in 1..Len(items) |-> KV("", items[i])]]

\* The outcome of a probe whose code raised (None has no strip()).
Raised == [tag |-> "raise", str |-> "AttributeError", num |-> 0, kids |-> <<>>]

IsDict(v) == v.tag = "map"

IsList(v) == v.tag = "list"

Keys(m) == [i \in 1..Len(m.kids) |-> m.kids[i].k]

HasKey(m, k) == \E i \in 1..Len(m.kids) : m.kids[i].k = k

Get(m, k) == m.kids[CHOOSE i \in 1..Len(m.kids) : m.kids[i].k = k].v

\* d[k] = v: an existing key keeps its place, a new key goes last.
DictSet(m, k, v) ==
    IF HasKey(m, k)
    THEN [m EXCEPT !.kids = [i \in 1..Len(m.kids) |->
              IF m.kids[i].k = k THEN KV(k, v) ELSE m.kids[i]]]
    ELSE [m EXCEPT !.kids = Append(m.kids, KV(k, v))]

RECURSIVE DictUpdate(_, _)
\* d.update({...}): the entries are set in order.
DictUpdate(m, entries) ==
    IF entries = <<>> THEN m
    ELSE DictUpdate(DictSet(m, Head(entries).k, Head(entries).v), Tail(entries))

\* ----------------------------------------------------------------- strings

IsSpace(c) == c \in {" ", "\t", "\n", "\r"}

RECURSIVE LStrip(_)
LStrip(s) ==
    IF Len(s) = 0 THEN s
    ELSE IF IsSpace(SubSeq(s, 1, 1)) THEN LStrip(SubSeq(s, 2, Len(s))) ELSE s

RECURSIVE RStrip(_)
RStrip(s) ==
    IF Len(s) = 0 THEN s
    ELSE IF IsSpace(SubSeq(s, Len(s), Len(s)))
         THEN RStrip(SubSeq(s, 1, Len(s) - 1)) ELSE s

\* x.strip() of a probed property: raises on None.
Strip(v) == IF v.tag = "str" THEN Str(RStrip(LStrip(v.str))) ELSE Raised

\* ------------------------------------------------------- the probed host

\* A host: how many memory banks, disks and video controllers WMI reports
\* (the hosts tried have as many of each), and the one property, if any,
\* that WMI reports as None.
NullProps ==
    {"", "cpu.Name", "cpu.SocketDesignation", "bank.PartNumber",
     "disk.SerialNumber", "gpu.Name", "gpu.AdapterRAM",
     "board.SerialNumber", "bios.SerialNumber"}

Hosts ==
    [units : 0..MaxUnits, nullProp : {""}]
    \cup [units : {1}, nullProp : NullProps]

\* The value WMI gives for property p of host h.
Wmi(h, p, v) == IF h.nullProp = p THEN None ELSE v

HasChar(s, c) == \E i \in 1..Len(s) : SubSeq(s, i, i) = c

RECURSIVE EscapeChars(_, _)
\* s with every character that esc maps replaced by its image.
EscapeChars(s, esc) ==
    IF Len(s) = 0 THEN ""
    ELSE LET c == SubSeq(s, 1, 1)
         IN  (IF c \in DOMAIN esc THEN esc[c] ELSE c)
             \o EscapeChars(SubSeq(s, 2, Len(s)), esc)

ReprEscapes ==
    [c \in {"\\", "'", "\n", "\r", "\t"} |->
        CASE c = "\\" -> "\\\\"
          [] c = "'" -> "\\'"
          [] c = "\n" -> "\\n"
          [] c = "\r" -> "\\r"
          [] c = "\t" -> "\\t"]

ReprEscapesDq ==
    [c \in {"\\", "\n", "\r", "\t"} |->
        CASE c = "\\" -> "\\\\"
          [] c = "\n" -> "\\n"
          [] c = "\r" -> "\\r"
          [] c = "\t" -> "\\t"]

\* repr() of a str: single quotes, unless it holds ' and no ".
ReprStr(s) ==
    IF HasChar(s, "'") /\ ~HasChar(s, "\"")
    THEN "\"" \o EscapeChars(s, ReprEscapesDq) \o "\""
    ELSE "'" \o EscapeChars(s, ReprEscapes) \o "'"

RECURSIVE PyRepr(_)
RECURSIVE ReprItems(_, _)
\* The items of a list or dict display, joined by ", ".
ReprItems(kids, isDict) ==
    IF kids = <<>> THEN ""
    ELSE (IF isDict THEN ReprStr(Head(kids).k) \o ": " ELSE "")
         \o PyRepr(Head(kids).v)
         \o (IF Len(kids) > 1 THEN ", " ELSE "")
         \o ReprItems(Tail(kids), isDict)

\* repr(v).
PyRepr(v) ==
    CASE v.tag = "str" -> ReprStr(v.str)
      [] v.tag = "int" -> ToString(v.num)
      [] v.tag = "bool" -> IF v.num = 1 THEN "True" ELSE "False"
      [] v.tag = "none" -> "None"
      [] v.tag = "list" -> "[" \o ReprItems(v.kids, FALSE) \o "]"
      [] v.tag = "map" -> "{" \o ReprItems(v.kids, TRUE) \o "}"

\* str(v), and f"{v}": a str is itself, anything else is its repr.
PyStr(v) == IF v.tag = "str" THEN v.str ELSE PyRepr(v)

\* ------------------------------------------------------------ HardwareInfo

get_system_info(h, minimal, exclude_serials) ==
    LET os0 == Map(<<KV("name", Wmi(h, "os.Caption", Str("Windows 11"))),
                     KV("version", Str("10.0.22631")),
                     KV("architecture", Str("64-bit"))>>)
        os1 == DictUpdate(os0,
                   <<KV("build_number", Str("22631")),
                     KV("install_date", Str(PyStr(Str("20230101")))),
                     KV("last_boot", Str(PyStr(Str("20240517")))),
                     KV("manufacturer", Str("Microsoft"))>>)
        os2 == DictSet(os1, "serial_number", Str("OS-SERIAL"))
        os  == IF minimal THEN os0
               ELSE IF exclude_serials THEN os1 ELSE os2
    IN  Map(<<KV("hostname", Str("HOST-01")), KV("os", os)>>)

get_cpu_info(h, minimal) ==
    LET name == Strip(Wmi(h, "cpu.Name", Str("Core i7  ")))
        cpu_info == Map(<<KV("name", name),
                          KV("cores", Num(4)),
                          KV("threads", Num(8)),
                          KV("architecture", Num(64))>>)
    IN  IF name = Raised THEN Raised
        ELSE IF minimal THEN cpu_info
        ELSE DictUpdate(cpu_info,
                 <<KV("manufacturer", Str("GenuineIntel")),
                   KV("max_clock_speed", Num(3200)),
                   KV("socket", Wmi(h, "cpu.SocketDesignation", Str("LGA1700"))),
                   KV("status", Str("OK")),
                   KV("virtualization", Bool(TRUE))>>)

\* One iteration of the loop over Win32_PhysicalMemory.
bank_info(h, i, minimal) ==
    LET base == Map(<<KV("capacity", Str("8589934592")),
                      KV("speed", Num(3200))>>)
        part == Strip(Wmi(h, "bank.PartNumber", Str("M471A1K43 ")))
    IN  IF minimal THEN base
        ELSE IF part = Raised THEN Raised
        ELSE DictUpdate(base,
                 <<KV("manufacturer", Str("Samsung")),
                   KV("part_number", part),
                   KV("device_locator", Str("DIMM " \o ToString(i - 1)))>>)

\* A list built by a loop whose body may raise.
Collected(items) ==
    IF \E i \in 1..Len(items) : items[i] = Raised THEN Raised ELSE List(items)

get_memory_info(h, minimal) ==
    LET banks == Collected([i \in 1..h.units |-> bank_info(h, i, minimal)])
    IN  IF banks = Raised THEN Raised
        ELSE Map(<<KV("total", Num(16384)), KV("banks", banks)>>)

\* disk_info with the serial number added whatever exclude_serials says.
disk_info_keeps_serial(h, i, minimal, exclude_serials) ==
    LET base == Map(<<KV("name", Str("NVMe SSD")),
                      KV("size", Str("512110190592")),
                      KV("interface_type", Str("SCSI"))>>)
        more == DictUpdate(base,
                    <<KV("manufacturer", Str("(Standard disk drives)")),
                      KV("model", Str("NVMe SSD")),
                      KV("partitions", Num(3)),
                      KV("status", Str("OK"))>>)
        serial == Strip(Wmi(h, "disk.SerialNumber",
                            Str(" DISK-SERIAL-" \o ToString(i - 1) \o " ")))
    IN  IF minimal THEN base
        ELSE IF serial = Raised THEN Raised
        ELSE DictSet(more, "serial_number", serial)

\* One iteration of the loop over Win32_DiskDrive.
disk_info(h, i, minimal, exclude_serials) ==
    LET base == Map(<<KV("name", Str("NVMe SSD")),
                      KV("size", Str("512110190592")),
                      KV("interface_type", Str("SCSI"))>>)
        more == DictUpdate(base,
                    <<KV("manufacturer", Str("(Standard disk drives)")),
                      KV("model", Str("NVMe SSD")),
                      KV("partitions", Num(3)),
                      KV("status", Str("OK"))>>)
        serial == Strip(Wmi(h, "disk.SerialNumber",
                            Str(" DISK-SERIAL-" \o ToString(i - 1) \o " ")))
    IN  IF minimal THEN base
        ELSE IF exclude_serials THEN more
        ELSE IF serial = Raised THEN Raised
        ELSE DictSet(more, "serial_number", serial)

get_storage_info(h, minimal, exclude_serials) ==
    Collected([i \in 1..h.units |-> disk_info(h, i, minimal, exclude_serials)])

\* One iteration of the loop over Win32_VideoController.
gpu_data(h, i, minimal) ==
    LET name == Strip(Wmi(h, "gpu.Name", Str("RTX 3060 ")))
        ram == Wmi(h, "gpu.AdapterRAM", Num(4096))
        base == Map(<<KV("name", name),
                      KV("adapter_ram", IF ram # None THEN ram ELSE Num(0)),
                      KV("driver_version", Str("31.0.15"))>>)
    IN  IF name = Raised THEN Raised
        ELSE IF minimal THEN base
        ELSE DictUpdate(base,
                 <<KV("video_processor", Str("GA106")),
                   KV("video_memory_type", Num(2)),
                   KV("video_architecture", Num(5)),
                   KV("status", Str("OK"))>>)

get_gpu_info(h, minimal) ==
    Collected([i \in 1..h.units |-> gpu_data(h, i, minimal)])

\* get_motherboard_info with the serial numbers added outside the
\* "if not minimal" block.
get_motherboard_info_serials_outside(h, minimal, exclude_serials) ==
    LET mb_info == Map(<<KV("manufacturer", Str("ASUS")),
                         KV("product", Str("PRIME Z690"))>>)
        more == IF minimal THEN mb_info
                ELSE DictUpdate(mb_info,
                         <<KV("version", Str("Rev 1.xx")),
                           KV("bios_manufacturer", Str("AMI")),
                           KV("bios_version", Str("ALASKA - 1072009")),
                           KV("bios_release_date", Str(PyStr(Str("20230301"))))>>)
        serial == Strip(Wmi(h, "board.SerialNumber", Str("MB-SERIAL ")))
        bios_serial == Strip(Wmi(h, "bios.SerialNumber", Str("BIOS-SERIAL")))
    IN  IF exclude_serials THEN more
        ELSE IF serial = Raised \/ bios_serial = Raised THEN Raised
        ELSE DictUpdate(more,
                 <<KV("serial_number", serial),
                   KV("bios_serial_number", bios_serial)>>)

get_motherboard_info(h, minimal, exclude_serials) ==
    LET mb_info == Map(<<KV("manufacturer", Str("ASUS")),
                         KV("product", Str("PRIME Z690"))>>)
        more == DictUpdate(mb_info,
                    <<KV("version", Str("Rev 1.xx")),
                      KV("bios_manufacturer", Str("AMI")),
                      KV("bios_version", Str("ALASKA - 1072009")),
                      KV("bios_release_date", Str(PyStr(Str("20230301"))))>>)
        serial == Strip(Wmi(h, "board.SerialNumber", Str("MB-SERIAL ")))
        bios_serial == Strip(Wmi(h, "bios.SerialNumber", Str("BIOS-SERIAL")))
    IN  IF minimal THEN mb_info
        ELSE IF exclude_serials THEN more
        ELSE IF serial = Raised \/ bios_serial = Raised THEN Raised
        ELSE DictUpdate(more,
                 <<KV("serial_number", serial),
                   KV("bios_serial_number", bios_serial)>>)

\* A dict display whose values may have raised.
Built(entries) ==
    IF \E i \in 1..Len(entries) : entries[i].v = Raised THEN Raised
    ELSE Map(entries)

collect_all(h, minimal, exclude_serials) ==
    Built(<<KV("system", get_system_info(h, minimal, exclude_serials)),
            KV("cpu", get_cpu_info(h, minimal)),
            KV("memory", get_memory_info(h, minimal)),
            KV("storage", get_storage_info(h, minimal, exclude_serials)),
            KV("gpu", get_gpu_info(h, minimal)),
            KV("motherboard", get_motherboard_info(h, minimal, exclude_serials))>>)

\* ---------------------------------------------------------------- rendering

\* A rendered string is the sequence of its pieces; Join is the string.
RECURSIVE Join(_)
Join(pieces) ==
    IF pieces = <<>> THEN ""
    ELSE IF Len(pieces) = 1 THEN pieces[1]
    ELSE LET half == Len(pieces) \div 2
         IN  Join(SubSeq(pieces, 1, half))
             \o Join(SubSeq(pieces, half + 1, Len(pieces)))

RECURSIVE Spaces(_)
\* " " * n
Spaces(n) == IF n <= 0 THEN "" ELSE " " \o Spaces(n - 1)

\* The text renderer indents by two columns per level.
TextIndent == 2

RECURSIVE dict_to_text(_, _)
RECURSIVE TextEntries(_, _)
RECURSIVE TextItems(_, _)
\* The loop over the items of a list value.
TextItems(items, indent) ==
    IF items = <<>> THEN <<>>
    ELSE LET item == Head(items).v
         IN  (IF IsDict(item)
              THEN dict_to_text(item, indent + TextIndent)
              ELSE <<Spaces(indent + TextIndent), PyStr(item), "\n">>)
             \o TextItems(Tail(items), indent)

\* The loop over d.items().
TextEntries(kids, indent) ==
    IF kids = <<>> THEN <<>>
    ELSE LET k == Head(kids).k
             v == Head(kids).v
         IN  (IF IsDict(v)
              THEN <<Spaces(indent), k, ":\n">>
                   \o dict_to_text(v, indent + TextIndent)
              ELSE IF IsList(v)
              THEN <<Spaces(indent), k, ":\n">> \o TextItems(v.kids, indent)
              ELSE <<Spaces(indent), k, ": ", PyStr(v), "\n">>)
             \o TextEntries(Tail(kids), indent)

\* dict_to_text that drops the indent it is called with.
dict_to_text_unindented(d, indent) == TextEntries(d.kids, 0)

dict_to_text(d, indent) == TextEntries(d.kids, indent)

\* dict(items): a repeated key keeps its first place and takes the last value.
RECURSIVE DictOf(_)
DictOf(items) ==
    IF items = <<>> THEN <<>>
    ELSE LET init == DictOf(SubSeq(items, 1, Len(items) - 1))
             last == items[Len(items)]
         IN  IF \E i \in 1..Len(init) : init[i].k = last.k
             THEN [i \in 1..Len(init) |->
                      IF init[i].k = last.k THEN last ELSE init[i]]
             ELSE Append(init, last)

RECURSIVE flatten_dict(_, _)
RECURSIVE FlattenEntries(_, _)
RECURSIVE FlattenItems(_, _, _)
RECURSIVE FlattenItemsAsScalars(_, _, _)
\* FlattenItems without the recursion into dict items.
FlattenItemsAsScalars(items, i, new_key) ==
    IF items = <<>> THEN <<>>
    ELSE <<KV(new_key \o "[" \o ToString(i) \o "]", PyStr(Head(items).v))>>
         \o FlattenItemsAsScalars(Tail(items), i + 1, new_key)

\* The loop over enumerate(v) of a list value at new_key.
FlattenItems(items, i, new_key) ==
    IF items = <<>> THEN <<>>
    ELSE LET item == Head(items).v
             key == new_key \o "[" \o ToString(i) \o "]"
         IN  (IF IsDict(item)
              THEN flatten_dict(item, key)
              ELSE <<KV(key, PyStr(item))>>)
             \o FlattenItems(Tail(items), i + 1, new_key)

\* The loop over d.items(): the list `items` before dict(items).
FlattenEntries(kids, parent_key) ==
    IF kids = <<>> THEN <<>>
    ELSE LET v == Head(kids).v
             new_key == IF parent_key # ""
                        THEN parent_key \o "." \o Head(kids).k
                        ELSE Head(kids).k
         IN  (IF IsDict(v) THEN flatten_dict(v, new_key)
              ELSE IF IsList(v) THEN FlattenItems(v.kids, 0, new_key)
              ELSE <<KV(new_key, PyStr(v))>>)
             \o FlattenEntries(Tail(kids), parent_key)

\* flatten_dict(d, parent_key): the (path, str) entries of the returned dict.
flatten_dict(d, parent_key) == DictOf(FlattenEntries(d.kids, parent_key))

CsvEscapes == [c \in {"\""} |-> "\"\""]

\* One field as csv.writer writes it (QUOTE_MINIMAL, excel dialect).
CsvField(s) ==
    IF \E c \in {",", "\"", "\r", "\n"} : HasChar(s, c)
    THEN "\"" \o EscapeChars(s, CsvEscapes) \o "\""
    ELSE s

RECURSIVE CsvFields(_)
CsvFields(fields) ==
    IF fields = <<>> THEN <<>>
    ELSE <<CsvField(Head(fields))>>
         \o (IF Len(fields) > 1 THEN <<",">> ELSE <<>>)
         \o CsvFields(Tail(fields))

\* writer.writerow(fields): a lone empty field is written quoted.
writerow(fields) ==
    (IF fields = <<"">> THEN <<"\"\"">> ELSE CsvFields(fields)) \o <<"\r\n">>

\* The csv branch of main: the header row and the data row.
csv_output(d) ==
    LET flattened == flatten_dict(d, "")
    IN  writerow([i \in 1..Len(flattened) |-> flattened[i].k])
        \o writerow([i \in 1..Len(flattened) |-> flattened[i].v])

JsonEscapes ==
    [c \in {"\\", "\"", "\n", "\r", "\t"} |->
        CASE c = "\\" -> "\\\\"
          [] c = "\"" -> "\\\""
          [] c = "\n" -> "\\n"
          [] c = "\r" -> "\\r"
          [] c = "\t" -> "\\t"]

JsonStr(s) == <<"\"", EscapeChars(s, JsonEscapes), "\"">>

\* json.dumps indents by two columns per level under --pretty.
JsonIndent == 2

RECURSIVE json_dumps(_, _, _)
RECURSIVE JsonItems(_, _, _, _)
\* The members of an object or the elements of an array.
JsonItems(kids, isDict, pretty, level) ==
    IF kids = <<>> THEN <<>>
    ELSE (IF pretty THEN <<"\n", Spaces(level * JsonIndent)>> ELSE <<>>)
         \o (IF isDict THEN JsonStr(Head(kids).k) \o <<": ">> ELSE <<>>)
         \o json_dumps(Head(kids).v, pretty, level)
         \o (IF Len(kids) > 1 THEN <<IF pretty THEN "," ELSE ", ">> ELSE <<>>)
         \o JsonItems(Tail(kids), isDict, pretty, level)

\* json.dumps(v, ensure_ascii=False), with indent=2 when pretty.
json_dumps(v, pretty, level) ==
    CASE v.tag = "str" -> JsonStr(v.str)
      [] v.tag = "int" -> <<ToString(v.num)>>
      [] v.tag = "bool" -> <<IF v.num = 1 THEN "true" ELSE "false">>
      [] v.tag = "none" -> <<"null">>
      [] v.tag \in {"map", "list"} ->
            LET open == IF IsDict(v) THEN "{" ELSE "["
                close == IF IsDict(v) THEN "}" ELSE "]"
            IN  IF v.kids = <<>> THEN <<open \o close>>
                ELSE <<open>>
                     \o JsonItems(v.kids, IsDict(v), pretty, level + 1)
                     \o (IF pretty
                         THEN <<"\n", Spaces(level * JsonIndent)>> ELSE <<>>)
                     \o <<close>>

\* The characters of the model's strings, in code point order.
Alphabet ==
    "\t\n\r !\"#$%&'()*+,-./0123456789:;<=>?@ABCDEFGHIJKLMNOPQRSTUVWXYZ[\\]^_abcdefghijklmnopqrstuvwxyz{|}~"

CharRank ==
    [c \in {SubSeq(Alphabet, i, i) : i \in 1..Len(Alphabet)} |->
        CHOOSE i \in 1..Len(Alphabet) : SubSeq(Alphabet, i, i) = c]

RECURSIVE StrLess(_, _)
\* a < b on str: by code points, a proper prefix first.
StrLess(a, b) ==
    IF Len(b) = 0 THEN FALSE
    ELSE IF Len(a) = 0 THEN TRUE
    ELSE LET x == CharRank[SubSeq(a, 1, 1)]
             y == CharRank[SubSeq(b, 1, 1)]
         IN  IF x # y THEN x < y
             ELSE StrLess(SubSeq(a, 2, Len(a)), SubSeq(b, 2, Len(b)))

RECURSIVE SortedByKey(_)
\* sorted(mapping.items()): the entries by key (keys are distinct).
SortedByKey(kids) ==
    IF kids = <<>> THEN <<>>
    ELSE LET m == CHOOSE i \in 1..Len(kids) :
                      \A j \in 1..Len(kids) :
                          j = i \/ StrLess(kids[i].k, kids[j].k)
                          \/ (kids[j].k = kids[i].k /\ i < j)
         IN  <<kids[m]>>
             \o SortedByKey([j \in 1..(Len(kids) - 1) |->
                                IF j < m THEN kids[j] ELSE kids[j + 1]])

Digits == {"0", "1", "2", "3", "4", "5", "6", "7", "8", "9"}

AllIn(s, chars) == \A i \in 1..Len(s) : SubSeq(s, i, i) \in chars

Unsigned(s) ==
    IF Len(s) > 0 /\ SubSeq(s, 1, 1) \in {"-", "+"}
    THEN SubSeq(s, 2, Len(s)) ELSE s

\* The plain scalars PyYAML's resolver reads as an int (decimal, octal,
\* hexadecimal, binary).
YamlIntLike(s) ==
    LET u == Unsigned(s)
        rest == SubSeq(u, 2, Len(u))
    IN  /\ Len(u) > 0
        /\ \/ u = "0"
           \/ SubSeq(u, 1, 1) \in (Digits \ {"0"}) /\ AllIn(rest, Digits \cup {"_"})
           \/ /\ SubSeq(u, 1, 1) = "0"
              /\ Len(u) > 1
              /\ AllIn(rest, {"0", "1", "2", "3", "4", "5", "6", "7", "_"})
           \/ /\ Len(u) > 2
              /\ SubSeq(u, 1, 2) = "0x"
              /\ AllIn(SubSeq(u, 3, Len(u)),
                       Digits \cup {"a", "b", "c", "d", "e", "f",
                                    "A", "B", "C", "D", "E", "F", "_"})
           \/ /\ Len(u) > 2
              /\ SubSeq(u, 1, 2) = "0b"
              /\ AllIn(SubSeq(u, 3, Len(u)), {"0", "1", "_"})

\* The plain scalars the resolver reads as a float: digits "." digits.
YamlFloatLike(s) ==
    LET u == Unsigned(s)
    IN  \E d \in 1..Len(u) :
            /\ SubSeq(u, d, d) = "."
            /\ AllIn(SubSeq(u, d + 1, Len(u)), Digits \cup {"_"})
            /\ \/ d > 1 /\ SubSeq(u, 1, 1) \in Digits
                  /\ AllIn(SubSeq(u, 1, d - 1), Digits \cup {"_"})
               \/ d = 1 /\ Len(u) > 1 /\ SubSeq(u, 2, 2) \in Digits

\* The plain scalars the resolver reads as a timestamp: a date, or a date
\* and a time of day with an optional fraction.
YamlTimestampLike(s) ==
    /\ Len(s) >= 10
    /\ AllIn(SubSeq(s, 1, 4), Digits) /\ SubSeq(s, 5, 5) = "-"
    /\ AllIn(SubSeq(s, 6, 7), Digits) /\ SubSeq(s, 8, 8) = "-"
    /\ AllIn(SubSeq(s, 9, 10), Digits)
    /\ \/ Len(s) = 10
       \/ /\ Len(s) >= 19
          /\ SubSeq(s, 11, 11) \in {"T", "t", " "}
          /\ AllIn(SubSeq(s, 12, 13), Digits) /\ SubSeq(s, 14, 14) = ":"
          /\ AllIn(SubSeq(s, 15, 16), Digits) /\ SubSeq(s, 17, 17) = ":"
          /\ AllIn(SubSeq(s, 18, 19), Digits)
          /\ \/ Len(s) = 19
             \/ SubSeq(s, 20, 20) = "." /\ AllIn(SubSeq(s, 21, Len(s)), Digits)

YamlWords ==
    {"~", "null", "Null", "NULL", "yes", "Yes", "YES", "no", "No", "NO",
     "true", "True", "TRUE", "false", "False", "FALSE", "on", "On", "ON",
     "off", "Off", "OFF", "<<", "="}

HasPair(s, p) == \E i \in 1..(Len(s) - 1) : SubSeq(s, i, i + 1) = p

\* Whether the emitter may write the str s as a plain scalar.
YamlPlain(s) ==
    /\ Len(s) > 0
    /\ ~IsSpace(SubSeq(s, 1, 1)) /\ ~IsSpace(SubSeq(s, Len(s), Len(s)))
    /\ SubSeq(s, 1, 1) \notin
           {"#", ",", "[", "]", "{", "}", "&", "*", "!", "|", ">", "'",
            "\"", "%", "@"}
    /\ ~(SubSeq(s, 1, 1) \in {"-", "?", ":"}
         /\ (Len(s) = 1 \/ IsSpace(SubSeq(s, 2, 2))))
    /\ ~HasPair(s, ": ") /\ ~HasPair(s, " #")
    /\ SubSeq(s, Len(s), Len(s)) # ":"
    /\ ~(Len(s) >= 3 /\ SubSeq(s, 1, 3) \in {"---", "..."})
    /\ ~(\E c \in {"\n", "\r", "\t"} : HasChar(s, c))
    /\ s \notin YamlWords
    /\ ~YamlIntLike(s) /\ ~YamlFloatLike(s) /\ ~YamlTimestampLike(s)

YamlSqEscapes == [c \in {"'"} |-> "''"]

\* A str as the emitter writes it: plain; double-quoted when it holds a
\* tab or a carriage return; else single-quoted.  (A str with a line feed is
\* written single-quoted and folded; the model's strings hold none.)
YamlStr(s) ==
    CASE YamlPlain(s) -> <<s>>
      [] ~YamlPlain(s) /\ (HasChar(s, "\t") \/ HasChar(s, "\r")) ->
            <<"\"", EscapeChars(s, JsonEscapes), "\"">>
      [] ~YamlPlain(s) /\ ~(\E c \in {"\n", "\r", "\t"} : HasChar(s, c)) ->
            <<"'", EscapeChars(s, YamlSqEscapes), "'">>

YamlScalar(v) ==
    CASE v.tag = "str" -> YamlStr(v.str)
      [] v.tag = "int" -> <<ToString(v.num)>>
      [] v.tag = "bool" -> <<IF v.num = 1 THEN "true" ELSE "false">>
      [] v.tag = "none" -> <<"null">>

\* Block mappings indent by two columns; a sequence in a mapping does not.
YamlIndent == 2

RECURSIVE YamlMapping(_, _, _)
RECURSIVE YamlSequence(_, _, _)
\* A node after "key:" or after "-": scalars and empty collections stay on
\* the line, a mapping or sequence opens a block.
YamlNode(v, indent, afterDash) ==
    IF v.tag \in {"map", "list"}
    THEN IF v.kids = <<>>
         THEN <<" ", IF IsDict(v) THEN "{}" ELSE "[]", "\n">>
         ELSE IF afterDash
         THEN <<" ">>
              \o (IF IsDict(v)
                  THEN YamlMapping(SortedByKey(v.kids), indent + YamlIndent, TRUE)
                  ELSE YamlSequence(v.kids, indent + YamlIndent, TRUE))
         ELSE <<"\n">>
              \o (IF IsDict(v)
                  THEN YamlMapping(SortedByKey(v.kids), indent + YamlIndent, FALSE)
                  ELSE YamlSequence(v.kids, indent, FALSE))
    ELSE <<" ">> \o YamlScalar(v) \o <<"\n">>

\* The entries of a block mapping; the first follows a "- " when inline.
YamlMapping(kids, indent, inline) ==
    IF kids = <<>> THEN <<>>
    ELSE (IF inline THEN <<>> ELSE <<Spaces(indent)>>)
         \o YamlStr(Head(kids).k) \o <<":">>
         \o YamlNode(Head(kids).v, indent, FALSE)
         \o YamlMapping(Tail(kids), indent, FALSE)

\* The items of a block sequence.
YamlSequence(kids, indent, inline) ==
    IF kids = <<>> THEN <<>>
    ELSE (IF inline THEN <<>> ELSE <<Spaces(indent)>>)
         \o <<"-">>
         \o YamlNode(Head(kids).v, indent, TRUE)
         \o YamlSequence(Tail(kids), indent, FALSE)

\* yaml.dump(d, allow_unicode=True) of a dict: block style, keys sorted.
yaml_dump(d) ==
    IF d.kids = <<>> THEN <<"{}", "\n">>
    ELSE YamlMapping(SortedByKey(d.kids), 0, FALSE)

\* ------------------------------------------------------------------- main

\* An option that was not given on the command line (argparse: None).
Absent == "<absent>"

FormatChoices == {"text", "json", "yaml", "csv"}

\* The value datetime.now().isoformat() gives.
Timestamps == {"2024-05-17T09:30:00.123456"}

\* The output paths tried: none, the empty string, and a path.
OutputArgs == {Absent, "", "report.out"}

\* The command lines tried: every combination of the component flags with
\* every format and detail flag, printed to standard output ...
SelectionArgv ==
    [format : FormatChoices \cup {"invalid"}, pretty : {FALSE},
     minimal : BOOLEAN, cpu : BOOLEAN, memory : BOOLEAN, storage : BOOLEAN,
     gpu : BOOLEAN, motherboard : BOOLEAN, all : BOOLEAN,
     output : {Absent}, no_timestamps : BOOLEAN,
     exclude_serials : BOOLEAN, quiet : {FALSE}, threads : {Absent}]

\* ... and every combination of the format, output and parsing options,
\* for the default selection and for --cpu.  threads stands for the two
\* type=int options.
DeliveryArgv ==
    [format : FormatChoices \cup {"invalid"}, pretty : BOOLEAN,
     minimal : {FALSE}, cpu : BOOLEAN, memory : {FALSE}, storage : {FALSE},
     gpu : {FALSE}, motherboard : {FALSE}, all : {FALSE},
     output : OutputArgs, no_timestamps : BOOLEAN,
     exclude_serials : {FALSE}, quiet : BOOLEAN,
     threads : {Absent, "4", "four"}]

ArgvSpace == SelectionArgv \cup DeliveryArgv

\* The namespace parse_args returns, without the options main never reads.
Namespace(av) ==
    [format |-> av.format, pretty |-> av.pretty, minimal |-> av.minimal,
     cpu |-> av.cpu, memory |-> av.memory, storage |-> av.storage,
     gpu |-> av.gpu, motherboard |-> av.motherboard, all |-> av.all,
     output |-> av.output, no_timestamps |-> av.no_timestamps,
     exclude_serials |-> av.exclude_serials, quiet |-> av.quiet]

\* The namespace of an empty command line.
DefaultArgs ==
    [format |-> "text", pretty |-> FALSE, minimal |-> FALSE, cpu |-> FALSE,
     memory |-> FALSE, storage |-> FALSE, gpu |-> FALSE,
     motherboard |-> FALSE, all |-> FALSE, output |-> Absent,
     no_timestamps |-> FALSE, exclude_serials |-> FALSE, quiet |-> FALSE]

\* int(s) succeeds: argparse's type=int.
IsIntArg(s) ==
    LET t == RStrip(LStrip(s))
        u == Unsigned(t)
    IN  Len(u) > 0 /\ AllIn(u, Digits \cup {"_"})
        /\ SubSeq(u, 1, 1) # "_" /\ SubSeq(u, Len(u), Len(u)) # "_"
        /\ ~HasPair(u, "__")

\* Accepted without the type=int check.
AcceptedFormatOnly(av) == av.format \in FormatChoices

\* parse_args accepts the command line.
Accepted(av) ==
    /\ av.format \in FormatChoices
    /\ av.threads = Absent \/ IsIntArg(av.threads)

\* bool(args.output)
Truthy(s) == s # Absent /\ s # ""

NoFile == [exists |-> FALSE, content |-> <<>>]

Init ==
    /\ argv \in ArgvSpace
    /\ pc = "start"
    /\ args = DefaultArgs
    /\ data = Map(<<>>)
    /\ output = <<>>
    /\ stdout = <<>>
    /\ stderr = <<>>
    /\ file = NoFile
    /\ exitCode = <<>>

\* The process ends with this status.
Exit(code) == pc' = "exit" /\ exitCode' = <<code>>

\* parser.parse_args() returns the namespace.
ParseArgs ==
    /\ pc = "start"
    /\ Accepted(argv)
    /\ args' = Namespace(argv)
    /\ pc' = "collect"
    /\ UNCHANGED <<argv, data, output, stdout, stderr, file, exitCode>>

\* parser.parse_args() rejects the command line: usage on stderr, exit 2.
ParseError ==
    /\ pc = "start"
    /\ ~Accepted(argv)
    /\ stderr' = stderr \o <<"usage: hw_info", "error: argument">>
    /\ Exit(2)
    /\ UNCHANGED <<argv, args, data, output, stdout, file>>

\* show_all that honours --all only when no component flag is given.
show_all_unless_flagged(a) ==
    ~(a.cpu \/ a.memory \/ a.storage \/ a.gpu \/ a.motherboard)

show_all(a) ==
    a.all \/ ~(a.cpu \/ a.memory \/ a.storage \/ a.gpu \/ a.motherboard)

\* collect_selected with the gpu branch before the storage branch.
collect_selected_reordered(h, a) ==
    Built((IF a.cpu THEN <<KV("cpu", get_cpu_info(h, a.minimal))>> ELSE <<>>)
       \o (IF a.memory
           THEN <<KV("memory", get_memory_info(h, a.minimal))>> ELSE <<>>)
       \o (IF a.gpu THEN <<KV("gpu", get_gpu_info(h, a.minimal))>> ELSE <<>>)
       \o (IF a.storage
           THEN <<KV("storage",
                     get_storage_info(h, a.minimal, a.exclude_serials))>>
           ELSE <<>>)
       \o (IF a.motherboard
           THEN <<KV("motherboard",
                     get_motherboard_info(h, a.minimal, a.exclude_serials))>>
           ELSE <<>>))

\* The else branch of the collection: one key per flag given, in this order.
collect_selected(h, a) ==
    Built((IF a.cpu THEN <<KV("cpu", get_cpu_info(h, a.minimal))>> ELSE <<>>)
       \o (IF a.memory
           THEN <<KV("memory", get_memory_info(h, a.minimal))>> ELSE <<>>)
       \o (IF a.storage
           THEN <<KV("storage",
                     get_storage_info(h, a.minimal, a.exclude_serials))>>
           ELSE <<>>)
       \o (IF a.gpu THEN <<KV("gpu", get_gpu_info(h, a.minimal))>> ELSE <<>>)
       \o (IF a.motherboard
           THEN <<KV("motherboard",
                     get_motherboard_info(h, a.minimal, a.exclude_serials))>>
           ELSE <<>>))

\* The collection step of main on host h.
collect(h, a) ==
    IF show_all(a) THEN collect_all(h, a.minimal, a.exclude_serials)
    ELSE collect_selected(h, a)

\* The probes of the chosen components return.
Collect ==
    /\ pc = "collect"
    /\ \E h \in Hosts :
          /\ collect(h, args) # Raised
          /\ data' = collect(h, args)
    /\ pc' = "timestamp"
    /\ UNCHANGED <<argv, args, output, stdout, stderr, file, exitCode>>

\* A probe raises (strip() of a property that is None): traceback, exit 1.
CollectRaises ==
    /\ pc = "collect"
    /\ \E h \in Hosts : collect(h, args) = Raised
    /\ stderr' = stderr \o <<"Traceback", "AttributeError">>
    /\ Exit(1)
    /\ UNCHANGED <<argv, args, data, output, stdout, file>>

\* AddTimestamp without the test of --no-timestamps.
AddTimestampAlways ==
    /\ pc = "timestamp"
    /\ \E now \in Timestamps : data' = DictSet(data, "timestamp", Str(now))
    /\ pc' = "format"
    /\ UNCHANGED <<argv, args, output, stdout, stderr, file, exitCode>>

\* data["timestamp"] = datetime.now().isoformat(), unless --no-timestamps.
AddTimestamp ==
    /\ pc = "timestamp"
    /\ \/ /\ ~args.no_timestamps
          /\ \E now \in Timestamps : data' = DictSet(data, "timestamp", Str(now))
       \/ /\ args.no_timestamps
          /\ data' = data
    /\ pc' = "format"
    /\ UNCHANGED <<argv, args, output, stdout, stderr, file, exitCode>>

\* The string main builds from the data in the requested format.
render(d, a) ==
    CASE a.format = "json" -> json_dumps(d, a.pretty, 0)
      [] a.format = "yaml" -> yaml_dump(d)
      [] a.format = "csv" -> csv_output(d)
      [] OTHER -> dict_to_text(d, 0)

FormatOutput ==
    /\ pc = "format"
    /\ output' = render(data, args)
    /\ pc' = "deliver"
    /\ UNCHANGED <<argv, args, data, stdout, stderr, file, exitCode>>

\* What reaches a sink when writing to it fails part of the way.
Partial(pieces) == {<<>>, SubSeq(pieces, 1, Len(pieces) \div 2)}

\* open(args.output, 'w') succeeds (the file is created or truncated).
OpenFile ==
    /\ pc = "deliver"
    /\ Truthy(args.output)
    /\ file' = [exists |-> TRUE, content |-> <<>>]
    /\ pc' = "write"
    /\ UNCHANGED <<argv, args, data, output, stdout, stderr, exitCode>>

\* open(args.output, 'w') raises OSError: traceback, exit 1.
OpenFails ==
    /\ pc = "deliver"
    /\ Truthy(args.output)
    /\ stderr' = stderr \o <<"Traceback", "OSError">>
    /\ Exit(1)
    /\ UNCHANGED <<argv, args, data, output, stdout, file>>

\* f.write(output) and the close of the with block succeed.
WriteFile ==
    /\ pc = "write"
    /\ file' = [file EXCEPT !.content = output]
    /\ pc' = "confirm"
    /\ UNCHANGED <<argv, args, data, output, stdout, stderr, exitCode>>

\* f.write(output) raises OSError: traceback, exit 1.
WriteFails ==
    /\ pc = "write"
    /\ \E part \in Partial(output) : file' = [file EXCEPT !.content = part]
    /\ stderr' = stderr \o <<"Traceback", "OSError">>
    /\ Exit(1)
    /\ UNCHANGED <<argv, args, data, output, stdout>>

\* Confirm without the test of --quiet.
ConfirmAlways ==
    /\ pc = "confirm"
    /\ stdout' = stdout \o <<"Results written to ", args.output, "\n">>
    /\ Exit(0)
    /\ UNCHANGED <<argv, args, data, output, stderr, file>>

\* print(f"Results written to {args.output}") unless --quiet; exit 0.
Confirm ==
    /\ pc = "confirm"
    /\ \/ /\ ~args.quiet
          /\ stdout' = stdout \o <<"Results written to ", args.output, "\n">>
       \/ /\ args.quiet
          /\ stdout' = stdout
    /\ Exit(0)
    /\ UNCHANGED <<argv, args, data, output, stderr, file>>

\* print(output); exit 0.
PrintOutput ==
    /\ pc = "deliver"
    /\ ~Truthy(args.output)
    /\ stdout' = stdout \o output \o <<"\n">>
    /\ Exit(0)
    /\ UNCHANGED <<argv, args, data, output, stderr, file>>

\* print(output) raises (encoding, closed pipe): traceback, exit 1.
PrintFails ==
    /\ pc = "deliver"
    /\ ~Truthy(args.output)
    /\ \E part \in Partial(output) : stdout' = stdout \o part
    /\ stderr' = stderr \o <<"Traceback", "UnicodeEncodeError">>
    /\ Exit(1)
    /\ UNCHANGED <<argv, args, data, output, file>>

Next ==
    \/ ParseArgs
    \/ ParseError
    \/ Collect
    \/ CollectRaises
    \/ AddTimestamp
    \/ FormatOutput
    \/ OpenFile
    \/ OpenFails
    \/ WriteFile
    \/ WriteFails
    \/ Confirm
    \/ PrintOutput
    \/ PrintFails

Spec == Init /\ [][Next]_vars

\* ------------------------------------------------ the renderers on any tree

\* Longest list of the trees tried.
MaxItems == 2

RecScalars == {Num(4), Str("X"), None}

\* The items of the lists tried: scalars, dicts and lists.
RecItems ==
    RecScalars
    \cup {Map(<<>>), Map(<<KV("a", Num(1))>>),
          Map(<<KV("a", Str("X")), KV("b", Num(2))>>),
          List(<<>>), List(<<Num(1), Num(2)>>)}

RecLists == {List(items) : items \in UNION {[1..m -> RecItems] : m \in 0..MaxItems}}

RecValues ==
    RecScalars \cup RecLists
    \cup {Map(<<>>), Map(<<KV("a", Num(1)), KV("b", Str("X"))>>),
          Map(<<KV("a", Map(<<KV("b", None)>>))>>)}

\* The tree of the text rendering scenario.
CpuExample == Map(<<KV("cpu", Map(<<KV("name", Str("X")), KV("cores", Num(4))>>))>>)

\* The tree of the column count scenario: cpu is a 3-field dict, memory a
\* dict holding a 2-item list of 2-field dicts.
CsvExample ==
    Map(<<KV("cpu", Map(<<KV("name", Str("X")), KV("cores", Num(4)),
                          KV("threads", Num(8))>>)),
          KV("memory", Map(<<KV("banks",
              List(<<Map(<<KV("capacity", Str("8")), KV("speed", Num(3200))>>),
                     Map(<<KV("capacity", Str("16")), KV("speed", Num(2400))>>)
                   >>))>>))>>)

\* A tree two of whose leaves have the same dotted path.
DottedExample ==
    Map(<<KV("a", Map(<<KV("b", Num(1))>>)), KV("a.b", Num(2))>>)

RecordTrees ==
    {Map(<<KV("k", v)>>) : v \in RecValues}
    \cup {Map(<<KV("k", v), KV("n", Num(7))>>) : v \in RecValues}
    \cup {CpuExample, CsvExample, DottedExample}

\* The command line of the default run.
EmptyArgv ==
    [format |-> "text", pretty |-> FALSE, minimal |-> FALSE, cpu |-> FALSE,
     memory |-> FALSE, storage |-> FALSE, gpu |-> FALSE,
     motherboard |-> FALSE, all |-> FALSE, output |-> Absent,
     no_timestamps |-> FALSE, exclude_serials |-> FALSE, quiet |-> FALSE,
     threads |-> Absent]

\* The formatting step of main, entered with any tree and any format.
InitRecord ==
    /\ argv = EmptyArgv
    /\ pc = "format"
    /\ \E f \in FormatChoices, p \in BOOLEAN :
          /\ p => f = "json"
          /\ args = [DefaultArgs EXCEPT !.format = f, !.pretty = p]
    /\ data \in RecordTrees
    /\ output = <<>>
    /\ stdout = <<>>
    /\ stderr = <<>>
    /\ file = NoFile
    /\ exitCode = <<>>

NextRecord == FormatOutput

SpecRecord == InitRecord /\ [][NextRecord]_vars

\* =================================================================== claims

\* The positions of main at which the report map has been collected.
ReportStages == {"timestamp", "format", "deliver", "write", "confirm"}

\* The positions of main after the timestamp step.
StampedStages == {"format", "deliver", "write", "confirm"}

CanonicalOrder == <<"system", "cpu", "memory", "storage", "gpu", "motherboard">>

AllSubsystems == {CanonicalOrder[i] : i \in 1..Len(CanonicalOrder)}

\* The component flags given on the command line.
Flagged(a) ==
    {n \in {"cpu", "memory", "storage", "gpu", "motherboard"} :
        \/ n = "cpu" /\ a.cpu
        \/ n = "memory" /\ a.memory
        \/ n = "storage" /\ a.storage
        \/ n = "gpu" /\ a.gpu
        \/ n = "motherboard" /\ a.motherboard}

\* The chosen set: everything by default or under --all, else the flags.
Chosen(a) == IF a.all \/ Flagged(a) = {} THEN AllSubsystems ELSE Flagged(a)

\* The keys of the report other than timestamp, in map order.
SubsystemKeys(d) == SelectSeq(Keys(d), LAMBDA k : k # "timestamp")

KeySet(d) == {d.kids[i].k : i \in 1..Len(d.kids)}

\* C1: for every combination of the flags, the subsystem keys of the report
\* are the chosen names, each exactly once and none else, in the canonical
\* order system, cpu, memory, storage, gpu, motherboard.
C1_SelectionExact ==
    pc \in ReportStages =>
        SubsystemKeys(data)
            = SelectSeq(CanonicalOrder, LAMBDA n : n \in Chosen(args))

\* The scenario chosen = {cpu, gpu}.
C1_Witness ==
    /\ pc = "timestamp"
    /\ Flagged(args) = {"cpu", "gpu"} /\ ~args.all
    /\ Keys(data) = <<"cpu", "gpu">>

\* C2: with no component flag, or with --all (alone or beside component
\* flags), the report holds all six subsystem keys; otherwise its subsystem
\* keys are exactly the non-empty set of flagged components.
C2_DefaultAndAllSelectEverything ==
    pc \in ReportStages =>
        IF args.all \/ Flagged(args) = {}
        THEN KeySet(data) \ {"timestamp"} = AllSubsystems
        ELSE /\ KeySet(data) \ {"timestamp"} = Flagged(args)
             /\ KeySet(data) \ {"timestamp"} # {}

\* --all beside --cpu.
C2_Witness ==
    /\ pc = "timestamp"
    /\ args.all /\ args.cpu
    /\ Len(data.kids) = Len(CanonicalOrder)

SensitiveKeys == {"serial_number", "bios_serial_number"}

RECURSIVE SensitiveValues(_)
\* The str of every value a tree holds under a sensitive key.
SensitiveValues(v) ==
    UNION {(IF v.kids[i].k \in SensitiveKeys
            THEN {PyStr(v.kids[i].v)} ELSE {})
           \cup SensitiveValues(v.kids[i].v) : i \in 1..Len(v.kids)}

\* The serial numbers of the hosts tried: what detailed, unfiltered
\* collection reports under the sensitive keys.
SerialValues ==
    UNION {SensitiveValues(collect_all(h, FALSE, FALSE)) :
              h \in {x \in Hosts : collect_all(x, FALSE, FALSE) # Raised}}

EndsWith(s, t) ==
    Len(s) >= Len(t) /\ SubSeq(s, Len(s) - Len(t) + 1, Len(s)) = t

\* A piece of rendered text that shows a sensitive field: its key (alone, or
\* last in a flattened path) or its value.
ShowsSensitive(piece) ==
    \/ \E k \in SensitiveKeys : EndsWith(piece, k)
    \/ piece \in SerialValues

Clean(pieces) == \A i \in 1..Len(pieces) : ~ShowsSensitive(pieces[i])

\* C3: under --exclude-serials no sensitive field (os, disk, motherboard and
\* bios serial number) is in the rendered string or in what reaches standard
\* output or the output file, for every format, value of minimal and
\* selection.
C3_SerialsExcluded ==
    args.exclude_serials =>
        Clean(output) /\ Clean(stdout) /\ Clean(file.content)

\* A detailed csv report of a host with a disk and a motherboard, printed.
C3_Witness ==
    /\ pc = "exit" /\ exitCode = <<0>>
    /\ args.exclude_serials /\ ~args.minimal /\ args.format = "csv"
    /\ HasKey(data, "storage") /\ Get(data, "storage").kids # <<>>
    /\ HasKey(data, "motherboard") /\ HasKey(data, "system")
    /\ stdout = output \o <<"\n">>

RECURSIVE AllKeys(_)
\* Every key of every dict of a tree.
AllKeys(v) ==
    UNION {(IF IsDict(v) THEN {v.kids[i].k} ELSE {})
           \cup AllKeys(v.kids[i].v) : i \in 1..Len(v.kids)}

\* Every item of the list at key k of d holds the keys ks.
ItemsHold(l, ks) == \A i \in 1..Len(l.kids) : ks \subseteq KeySet(l.kids[i].v)

\* C4: under --minimal every sensitive field is dropped from every record,
\* with or without --exclude-serials, and the essential fields of the same
\* records are kept.
C4_MinimalDropsSensitiveKeepsEssential ==
    (pc \in ReportStages /\ args.minimal) =>
        /\ AllKeys(data) \cap SensitiveKeys = {}
        /\ HasKey(data, "system") =>
              /\ HasKey(Get(data, "system"), "hostname")
              /\ {"name", "version", "architecture"}
                     \subseteq KeySet(Get(Get(data, "system"), "os"))
        /\ HasKey(data, "cpu") =>
              {"name", "cores", "threads", "architecture"}
                  \subseteq KeySet(Get(data, "cpu"))
        /\ HasKey(data, "memory") =>
              /\ {"total", "banks"} \subseteq KeySet(Get(data, "memory"))
              /\ ItemsHold(Get(Get(data, "memory"), "banks"),
                           {"capacity", "speed"})
        /\ HasKey(data, "storage") =>
              ItemsHold(Get(data, "storage"),
                        {"name", "size", "interface_type"})
        /\ HasKey(data, "gpu") =>
              ItemsHold(Get(data, "gpu"),
                        {"name", "adapter_ram", "driver_version"})
        /\ HasKey(data, "motherboard") =>
              {"manufacturer", "product"}
                  \subseteq KeySet(Get(data, "motherboard"))

\* --minimal without --exclude-serials, on a host with a disk.
C4_Witness ==
    /\ pc = "timestamp"
    /\ args.minimal /\ ~args.exclude_serials
    /\ HasKey(data, "motherboard") /\ HasKey(data, "system")
    /\ HasKey(data, "storage") /\ Get(data, "storage").kids # <<>>

\* C5: the report holds the timestamp key if and only if --no-timestamps
\* was not given, and then it is the last key, after every subsystem key.
C5_TimestampLast ==
    pc \in StampedStages =>
        /\ HasKey(data, "timestamp") <=> ~args.no_timestamps
        /\ HasKey(data, "timestamp") =>
              /\ data.kids[Len(data.kids)].k = "timestamp"
              /\ \A i \in 1..(Len(data.kids) - 1) :
                     data.kids[i].k \in AllSubsystems
              /\ data.kids[Len(data.kids)].v.tag = "str"

\* A full report with its timestamp.
C5_Witness ==
    /\ pc = "format"
    /\ ~args.no_timestamps
    /\ Keys(data) = CanonicalOrder \o <<"timestamp">>

RECURSIVE FlattenClaimed(_, _)
RECURSIVE FlattenClaimedKids(_, _, _, _)
\* The pairs of the entries of a dict or of the items of a list, in order.
FlattenClaimedKids(kids, i, p, isDict) ==
    IF kids = <<>> THEN <<>>
    ELSE FlattenClaimed(Head(kids).v,
             IF isDict
             THEN (IF p # "" THEN p \o "." \o Head(kids).k ELSE Head(kids).k)
             ELSE p \o "[" \o ToString(i) \o "]")
         \o FlattenClaimedKids(Tail(kids), i + 1, p, isDict)

\* flatten as claimed: one pair per scalar leaf, every entry and every item
\* recursed into, whatever its variant.
FlattenClaimed(v, p) ==
    IF v.tag \in {"map", "list"}
    THEN FlattenClaimedKids(v.kids, 0, p, IsDict(v))
    ELSE <<KV(p, PyStr(v))>>

RECURSIVE CsvRows(_)
\* The rows of a csv text: its pieces up to each line terminator.
CsvRows(pieces) ==
    IF pieces = <<>> THEN <<>>
    ELSE LET end == CHOOSE i \in 1..Len(pieces) :
                        /\ pieces[i] = "\r\n"
                        /\ \A j \in 1..(i - 1) : pieces[j] # "\r\n"
         IN  <<SubSeq(pieces, 1, end - 1)>>
             \o CsvRows(SubSeq(pieces, end + 1, Len(pieces)))

\* The fields of a row: its pieces other than the delimiters.
CsvRowFields(row) == SelectSeq(row, LAMBDA x : x # ",")

\* C7: the csv text is exactly two rows, the header row of the flattened
\* paths and one data row of the values, each with as many fields as flatten
\* produces pairs; 7 for the report whose cpu is a 3-field dict and whose
\* memory holds a 2-item list of 2-field dicts.
C7_CsvTwoRowsOfEqualWidth ==
    (pc = "deliver" /\ args.format = "csv") =>
        LET rows == CsvRows(output)
            pairs == flatten_dict(data, "")
        IN  /\ output[Len(output)] = "\r\n"
            /\ Len(rows) = 2
            /\ Len(CsvRowFields(rows[1])) = Len(pairs)
            /\ Len(CsvRowFields(rows[2])) = Len(pairs)
            /\ data = CsvExample =>
                  /\ Len(pairs) = 7
                  /\ CsvRowFields(rows[1])
                        = <<"cpu.name", "cpu.cores", "cpu.threads",
                            "memory.banks[0].capacity", "memory.banks[0].speed",
                            "memory.banks[1].capacity", "memory.banks[1].speed">>
                  /\ CsvRowFields(rows[2])
                        = <<"X", "4", "8", "8", "3200", "16", "2400">>

\* The column count scenario, rendered.
C7_Witness ==
    /\ pc = "deliver" /\ args.format = "csv"
    /\ data = CsvExample
    /\ Len(CsvRowFields(CsvRows(output)[1])) = 7

\* The process has exited and the file was being written when main failed.
FileWriteFailed ==
    /\ args.output \notin {Absent, ""}
    /\ stderr = <<"Traceback", "OSError">>

\* No report text reached a sink.
NoReportOutput == stdout = <<>> /\ file = NoFile

IntOptionInvalid ==
    argv.threads # Absent /\ ~AllIn(argv.threads, Digits)

Nesting(level) == Spaces(2 * level)

RECURSIVE TextLines(_, _)
RECURSIVE TextLinesOfKids(_, _)
RECURSIVE TextLinesOfItems(_, _)
\* The lines of the items of a list value: a dict item gives its own lines,
\* any other item its text.
TextLinesOfItems(items, level) ==
    IF items = <<>> THEN <<>>
    ELSE (IF IsDict(Head(items).v) THEN TextLines(Head(items).v, level)
          ELSE <<Nesting(level) \o PyStr(Head(items).v)>>)
         \o TextLinesOfItems(Tail(items), level)

TextLinesOfKids(kids, level) ==
    IF kids = <<>> THEN <<>>
    ELSE LET k == Head(kids).k
             v == Head(kids).v
         IN  (CASE IsDict(v) ->
                      <<Nesting(level) \o k \o ":">> \o TextLines(v, level + 1)
                [] IsList(v) ->
                      <<Nesting(level) \o k \o ":">>
                      \o TextLinesOfItems(v.kids, level + 1)
                [] OTHER -> <<Nesting(level) \o k \o ": " \o PyStr(v)>>)
             \o TextLinesOfKids(Tail(kids), level)

\* The lines of a dict as claimed, at a nesting level.
TextLines(d, level) == TextLinesOfKids(d.kids, level)

\* Each line followed by a newline.
Terminated(lines) == Join([i \in 1..Len(lines) |-> lines[i] \o "\n"])

\* C9: the text renderer emits the entries of a dict in map order, one line
\* each, with 2 spaces per nesting level: "k:" and the entries one level
\* deeper for a dict, "k:" and each item one level deeper for a list (dict
\* items recursed, other items as their text), "k: value" otherwise; so
\* cpu = {name: X, cores: 4} is "cpu:", "  name: X", "  cores: 4", each line
\* newline-terminated.
C9_TextLines ==
    (pc = "deliver" /\ args.format = "text") =>
        /\ Join(output) = Terminated(TextLines(data, 0))
        /\ data = CpuExample => Join(output) = "cpu:\n  name: X\n  cores: 4\n"

\* The text rendering scenario, and a list of a scalar, a dict and a list.
C9_Witness ==
    /\ pc = "deliver" /\ args.format = "text"
    /\ \/ data = CpuExample
       \/ data = Map(<<KV("k", List(<<Str("X"), Map(<<KV("a", Num(1))>>)>>))>>)
    /\ output # <<>>

\* The confirmation line.
Confirmation == <<"Results written to ", args.output, "\n">>

\* An output path was given (an empty --output value names no path).
PathGiven == args.output \notin {Absent, ""}

\* C10: the string is fully built before a sink is touched; it goes to the
\* output file when a path is given and else to standard output, never to
\* both; the confirmation line is on standard output only after a
\* successful write without --quiet, never after a failed write and never
\* without an output path.
C10_OneSinkThenConfirmation ==
    /\ pc \in {"start", "collect", "timestamp", "format"} =>
          stdout = <<>> /\ file = NoFile
    /\ pc = "deliver" =>
          output = render(data, args) /\ stdout = <<>> /\ file = NoFile
    /\ PathGiven => stdout \in {<<>>, Confirmation}
    /\ ~PathGiven => file = NoFile
    /\ file.content \in {<<>>, output} \cup Partial(output)
    /\ (pc = "exit" /\ exitCode = <<0>>) =>
          IF PathGiven
          THEN /\ file = [exists |-> TRUE, content |-> output]
               /\ stdout = IF args.quiet THEN <<>> ELSE Confirmation
          ELSE stdout = output \o <<"\n">>
    /\ stdout = Confirmation =>
          /\ PathGiven /\ ~args.quiet
          /\ file = [exists |-> TRUE, content |-> output]
          /\ pc = "exit" /\ exitCode = <<0>>

\* A report written to the file and confirmed.
C10_Witness ==
    /\ pc = "exit" /\ exitCode = <<0>>
    /\ PathGiven /\ ~args.quiet
    /\ file = [exists |-> TRUE, content |-> output]
    /\ stdout = Confirmation
====
